---- MODULE Spec2Model ----
(***************************************************************************)
(* Tool-use orchestration engine of converse_model.py (class ToolUseDemo): *)
(* run, _send_conversation_to_bedrock, _process_model_response,            *)
(* _handle_tool_use and _invoke_tool, as a state machine over the          *)
(* conversation transcript.  The model endpoint and the tools are the      *)
(* environment: their answers are drawn from small sets.                   *)
(***************************************************************************)
EXTENDS Integers, Sequences, FiniteSets, TLC

VARIABLES
    conversation,   \* run(): the transcript, a list of messages {role, content}
    pc,             \* position of the single thread of control
    response,       \* value returned by _send_conversation_to_bedrock (None or a response)
    max_recursion,  \* the max_recursion argument of the pending/current call
    image_message,  \* run(): result of _load_image(), read once before the loop
    console,        \* events printed through output.* and logged at warning/error level
    fault,          \* why the process ended abnormally ("none" while it has not)
    transport,      \* history: kind of failure of the endpoint call ("none" while none)
    stops,          \* history: stop reasons the endpoint returned in the current user turn
    rounds,         \* history: executions of _handle_tool_use in the current user turn
    dispatched,     \* history: toolUseIds passed to _invoke_tool in the latest round
    turnStart,      \* history: Len(conversation) when the current user input was read
    turnMark,       \* history: Len(console) when the current user input was read
    rich,           \* history: endpoint responses with non-canonical content so far
    width,          \* ComputerTool.width, from get_screen_resolution()
    height,         \* ComputerTool.height
    additional_model_request_fields, \* ToolUseDemo.__init__: the computer entry sent with every request (None before)
    scale_args,     \* arguments of the latest scale_coordinates call (None before the first)
    scale_result,   \* what that call returned or raised
    scale_origin,   \* history: the API coordinates a result fed back came from (None otherwise)
    input_data,     \* computer.invoke: the input of the tool request (None outside a computer run)
    shell_log,      \* history: what ComputerTool ran, in order: commands, the delay, file reads
    tool_result_content, \* what computer.invoke returned (None until it has)
    call_outcome,   \* history: what ComputerTool.__call__ returned or raised (None until it has)
    escaped,        \* exception that left computer.invoke ("None" when none)
    listing,        \* os.listdir('tools'): the units _load_tool_configs walks (None outside discovery)
    tool_configs,   \* what _load_tool_configs returned, or how it ended (None until it has)
    tool_request,   \* _invoke_tool: the payload and what the tool does with it (None before a dispatch)
    dispatch_result \* what that call of _invoke_tool returned or raised (None until it has)

orchestratorVars ==
    <<conversation, pc, response, max_recursion, image_message, console, fault,
      transport, stops, rounds, dispatched, turnStart, turnMark, rich>>
displayVars == <<width, height, additional_model_request_fields>>
scaleVars == <<scale_args, scale_result, scale_origin>>
computerVars == <<input_data, shell_log, call_outcome, tool_result_content, escaped>>
discoveryVars == <<listing, tool_configs>>
dispatchVars == <<tool_request, dispatch_result>>
toolVars == <<displayVars, scaleVars, computerVars, discoveryVars, dispatchVars>>

vars == <<orchestratorVars, toolVars>>

-----------------------------------------------------------------------------
(* Bounds of the model *)

\* endpoint calls in one run: the user types the exit token once a whole further
\* turn (MAX_RECURSIONS + 1 calls) would not fit
MaxCalls == 12
\* endpoint calls in one run where a turn with a tool-use round is followed by a
\* whole turn
MaxCallsTwoTurns == 13
\* endpoint responses per run whose (stop reason, content) is not canonical
MaxRich == 1

-----------------------------------------------------------------------------
(* Program constants and values *)

MAX_RECURSIONS == 10

\* Python's None, and a present value, as a list of length 0 or 1
None == <<>>
Some(v) == <<v>>

\* content blocks, as the dictionaries the Converse API exchanges
Text(s) == [text |-> s]
ToolUse(id, name) == [toolUse |-> [toolUseId |-> id, name |-> name, input |-> "input"]]

\* what the user can type at the prompt (the empty line only re-prompts)
ConsoleLines == {"x", "X", "what's 2+2"}

\* str.lower() on the lines above
Lower(s) == IF s = "X" THEN "x" ELSE s

GetUserInput(line) == IF Lower(line) = "x" THEN None ELSE Some(line)

\* _load_image(): None ("x") or the bytes of the file
ImageChoices == {None, Some("image_bytes")}

-----------------------------------------------------------------------------
(* The environment: the tools package and the model endpoint *)

\* modules importable as tools.<name>
ToolModules == {"weather_tool", "custom_tool", "no_invoke_tool"}

\* modules among them that define invoke
HasInvoke(tool_name) == tool_name \in {"weather_tool", "custom_tool"}

\* what invoke(input_data) of a tool can do: return a payload or raise
InvokeOutcomes(tool_name) ==
    IF tool_name = "weather_tool"
    THEN {[returns |-> [json |-> "weather_data"]]}
    ELSE {[returns |-> [json |-> "ok"]], [raises |-> "ValueError"]}

\* outcome of the environment for one dispatch of tool_name
ToolOutcomes(tool_name) ==
    IF tool_name \in ToolModules /\ HasInvoke(tool_name)
    THEN InvokeOutcomes(tool_name)
    ELSE {[returns |-> None]}

StopReasons == {"tool_use", "end_turn", "max_tokens"}

CanonicalContent(stopReason) ==
    IF stopReason = "tool_use"
    THEN <<ToolUse("t1", "weather_tool")>>
    ELSE <<Text("4")>>

\* contents that are not canonical: empty, text with two requests (one for a
\* tool that does not exist), a request first (one for a module without invoke)
RichContents ==
    { <<>>,
      <<Text("a"), ToolUse("t1", "weather_tool"), ToolUse("t2", "nonexistent_tool")>>,
      <<ToolUse("t1", "no_invoke_tool"), Text("b"), ToolUse("t2", "custom_tool")>> }

BedrockResponse(stopReason, content) ==
    [stopReason |-> stopReason,
     output |-> [message |-> [role |-> "assistant", content |-> content]]]

IsCanonical(r) == r.output.message.content = CanonicalContent(r.stopReason)

Responses ==
    {BedrockResponse(s, CanonicalContent(s)) : s \in StopReasons}
    \cup {BedrockResponse(s, c) : s \in {"tool_use", "end_turn"}, c \in RichContents}

-----------------------------------------------------------------------------
(* _invoke_tool *)

\* f"Tool '{tool_name}' not found in the tools directory."
NotFoundMessage(tool_name) == <<"Tool '", tool_name, "' not found in the tools directory.">>

\* f"Tool '{tool_name}' does not have an 'invoke' method."
NoInvokeMessage(tool_name) == <<"Tool '", tool_name, "' does not have an 'invoke' method.">>

\* mutant: the except clause for ModuleNotFoundError is missing
Handled_AttributeOnly(exc) == exc = "AttributeError"

\* the exceptions the try statement of _invoke_tool handles
Handled(exc) == exc \in {"ModuleNotFoundError", "AttributeError"}

\* what the body of the try statement does: the value of response, or the exception
TryInvoke(tool_name, outcome) ==
    IF tool_name \notin ToolModules THEN [raises |-> "ModuleNotFoundError"]
    ELSE IF ~HasInvoke(tool_name) THEN [raises |-> "AttributeError"]
    ELSE outcome

\* the except clauses and the return statement of _invoke_tool, for what the body
\* of the try statement did: [raised, value]; value is {"toolUseId", "content"}
Dispatched(payload, tried) ==
    LET tool_name == payload.name
        raised == IF "raises" \in DOMAIN tried THEN tried.raises ELSE "None"
        resp == IF raised = "None" THEN tried.returns
                ELSE IF raised = "ModuleNotFoundError"
                     THEN [error |-> "true", message |-> NotFoundMessage(tool_name)]
                     ELSE [error |-> "true", message |-> NoInvokeMessage(tool_name)]
    IN  IF raised # "None" /\ ~Handled(raised)
        THEN [raised |-> raised, value |-> None]
        ELSE [raised |-> "None",
              value |-> Some([toolUseId |-> payload.toolUseId, content |-> resp])]

\* _invoke_tool(payload)
InvokeTool(payload, outcome) == Dispatched(payload, TryInvoke(payload.name, outcome))

-----------------------------------------------------------------------------
(* _handle_tool_use: the loop over the content blocks *)

ToolUseIndexes(content) == {i \in 1..Len(content) : "toolUse" \in DOMAIN content[i]}

\* one choice of environment outcome per tool-use request of the turn
OutcomeChoices(content) ==
    {oc \in [ToolUseIndexes(content) -> UNION {ToolOutcomes(n) : n \in ToolModules \cup {"nonexistent_tool"}}] :
        \A i \in ToolUseIndexes(content) : oc[i] \in ToolOutcomes(content[i].toolUse.name)}

ToolEvent(payload) == [ev |-> "tool_use", name |-> payload.name]
TextEvent(text) == [ev |-> "model_response", text |-> text]

\* the block _handle_tool_use appends to tool_results for one tool response
ToolResult(tool_response) ==
    [toolResult |-> [toolUseId |-> tool_response.toolUseId,
                     content |-> <<tool_response.content>>]]

\* mutant: the result is inserted at the front of the list
Accumulate_Front(tool_results, result) == <<result>> \o tool_results

\* tool_results.append(...)
Accumulate(tool_results, result) == Append(tool_results, result)

RECURSIVE HandleBlocks(_, _, _, _)
HandleBlocks(content, oc, i, acc) ==
    IF i > Len(content) THEN acc
    ELSE
      LET content_block == content[i]
          acc1 == IF "text" \in DOMAIN content_block
                  THEN [acc EXCEPT !.printed = Append(@, TextEvent(content_block.text))]
                  ELSE acc
      IN  IF "toolUse" \in DOMAIN content_block
          THEN LET payload == content_block.toolUse
                   r == InvokeTool(payload, oc[i])
                   acc2 == [acc1 EXCEPT !.printed = Append(@, ToolEvent(payload)),
                                        !.dispatched = Append(@, payload.toolUseId)]
               IN  IF r.raised # "None"
                   THEN [acc2 EXCEPT !.raised = r.raised]
                   ELSE HandleBlocks(content, oc, i + 1,
                          [acc2 EXCEPT !.tool_results = Accumulate(@, ToolResult(r.value[1]))])
          ELSE HandleBlocks(content, oc, i + 1, acc1)

EmptyAcc == [tool_results |-> <<>>, printed |-> <<>>, dispatched |-> <<>>, raised |-> "None"]

\* mutant: the tool results are sent under the model's role
ToolResultMessage_Assistant(tool_results) == [role |-> "assistant", content |-> tool_results]

\* mutant: a round without results sends a text block instead of an empty content
ToolResultMessage_Placeholder(tool_results) ==
    [role |-> "user",
     content |-> IF tool_results = <<>> THEN <<Text("no tool was requested")>> ELSE tool_results]

\* the user message _handle_tool_use embeds the tool results in
ToolResultMessage(tool_results) == [role |-> "user", content |-> tool_results]

\* mutant: the list is rebuilt around the new message
AppendMessage_Reset(conv, message) == <<message>>

\* conversation.append(message)
AppendMessage(conv, message) == Append(conv, message)

\* mutant: the budget is passed on undiminished
NextRecursion_Same(m) == m

\* mutant: each round costs two units of the budget
NextRecursion_Double(m) == m - 2

\* the budget _handle_tool_use passes to the recursive _process_model_response
NextRecursion(m) == m - 1

\* mutant: the guard lets budget 0 through
RecursionReached_Strict(m) == m < 0

\* the guard of _process_model_response
RecursionReached(m) == m <= 0

-----------------------------------------------------------------------------
(* State machine *)

\* no display has been queried, no scale_coordinates call has been made
NoDisplay == width = 0 /\ height = 0 /\ additional_model_request_fields = None
NoScaling == scale_args = None /\ scale_result = None /\ scale_origin = None
\* computer.invoke has not been called
NoComputerRun ==
    /\ input_data = None /\ shell_log = <<>> /\ call_outcome = None
    /\ tool_result_content = None /\ escaped = "None"
\* _load_tool_configs has not been called
NoDiscovery == listing = None /\ tool_configs = None
\* no tool request has been dispatched against the tools directory
NoDispatch == tool_request = None /\ dispatch_result = None

\* run() is entered with the constructed ToolUseDemo
OrchestratorInit ==
    /\ conversation = <<>>
    /\ pc = "run"
    /\ response = None
    /\ max_recursion = MAX_RECURSIONS
    /\ image_message = None
    /\ console = <<>>
    /\ fault = "none"
    /\ transport = "none"
    /\ stops = <<>>
    /\ rounds = 0
    /\ dispatched = <<>>
    /\ turnStart = 0
    /\ turnMark = 0
    /\ rich = 0

Init ==
    OrchestratorInit /\ NoDisplay /\ NoScaling /\ NoComputerRun /\ NoDiscovery /\ NoDispatch

\* mutant: run() passes on what the turn before left of the budget
TurnRecursion_Carried(left) == left

\* the budget run() passes to _process_model_response for a new user input,
\* whatever the turn before left of it
TurnRecursion(left) == MAX_RECURSIONS

\* the user message run() builds from the input and the image
UserMessage(user_input, image) ==
    [role |-> "user",
     content |-> IF image # None THEN <<Text(user_input), [bytes |-> image[1]]>>
                 ELSE <<Text(user_input)>>]

\* the body of the while loop of run() up to the endpoint call, or leaving the loop
LoopOn(user_input, image) ==
    IF user_input = None
    THEN /\ pc' = "footer"
         /\ UNCHANGED <<conversation, max_recursion, stops, rounds, dispatched,
                        turnStart, turnMark>>
    ELSE /\ conversation' = AppendMessage(conversation, UserMessage(user_input[1], image))
         /\ pc' = "send"
         /\ max_recursion' = TurnRecursion(max_recursion)
         /\ stops' = <<>>
         /\ rounds' = 0
         /\ dispatched' = <<>>
         /\ turnStart' = Len(conversation)
         /\ turnMark' = Len(console)

\* endpoint calls announced on the console from position from + 1 on
Calls(from) == Cardinality({i \in (from + 1)..Len(console) : console[i].ev = "call_to_bedrock"})

\* what the user may type: only the exit token once the calls leave no room
Typed(calls) ==
    IF Calls(0) + MAX_RECURSIONS + 1 <= calls THEN ConsoleLines ELSE {"x", "X"}

\* run(): first prompt, image prompt, then the loop
RunStart(calls) ==
    /\ pc = "run"
    /\ \E line \in Typed(calls), image \in ImageChoices :
          /\ image_message' = image
          /\ LoopOn(GetUserInput(line), image)
    /\ UNCHANGED <<response, console, fault, transport, rich>>
    /\ UNCHANGED toolVars

\* run(): the prompt at the end of the loop body, then the next iteration
RunNextInput(calls) ==
    /\ pc = "await"
    /\ \E line \in Typed(calls) : LoopOn(GetUserInput(line), image_message)
    /\ UNCHANGED <<response, image_message, console, fault, transport, rich>>
    /\ UNCHANGED toolVars

CallEvent == [ev |-> "call_to_bedrock"]
LogEvent(level, what) == [ev |-> level, what |-> what]

\* the endpoint is called at most calls times in a run (never binding: a
\* turn is only started while MAX_RECURSIONS + 1 calls fit)
CallFits(calls) == Calls(0) < calls

\* _send_conversation_to_bedrock: the endpoint answers
SendAnswered(calls) ==
    /\ pc = "send"
    /\ CallFits(calls)
    /\ \E r \in Responses :
          /\ IsCanonical(r) \/ rich < MaxRich
          /\ rich' = IF IsCanonical(r) THEN rich ELSE rich + 1
          /\ response' = Some(r)
          /\ stops' = Append(stops, r.stopReason)
    /\ console' = Append(console, CallEvent)
    /\ pc' = "process"
    /\ UNCHANGED <<conversation, max_recursion, image_message, fault, transport,
                   rounds, dispatched, turnStart, turnMark>>
    /\ UNCHANGED toolVars

\* _send_conversation_to_bedrock: converse raises ClientError; the handler logs
\* and the function returns None
SendClientError(calls) ==
    /\ pc = "send"
    /\ CallFits(calls)
    /\ console' = console \o <<CallEvent, LogEvent("logging.error", "Error calling Bedrock")>>
    /\ response' = None
    /\ transport' = "ClientError"
    /\ pc' = "process"
    /\ UNCHANGED <<conversation, max_recursion, image_message, fault, stops,
                   rounds, dispatched, turnStart, turnMark, rich>>
    /\ UNCHANGED toolVars

\* _send_conversation_to_bedrock: converse raises another exception; exit(1)
SendException(calls) ==
    /\ pc = "send"
    /\ CallFits(calls)
    /\ console' = Append(console, CallEvent)
    /\ response' = None
    /\ transport' = "Exception"
    /\ pc' = "exit"
    /\ fault' = "transport"
    /\ UNCHANGED <<conversation, max_recursion, image_message, stops,
                   rounds, dispatched, turnStart, turnMark, rich>>
    /\ UNCHANGED toolVars

\* _process_model_response: the recursion guard fires; warning and exit(1)
ProcessExhausted ==
    /\ console' = Append(console,
          LogEvent("logging.warning", "Maximum number of recursions reached"))
    /\ pc' = "exit"
    /\ fault' = "recursion"
    /\ UNCHANGED conversation

\* mutant: a missing response is skipped and the function returns
ProcessNone_Returns ==
    /\ pc' = "await"
    /\ UNCHANGED <<conversation, console, fault>>

\* _process_model_response: model_response["output"] on None raises TypeError,
\* which nothing catches
ProcessNone ==
    /\ pc' = "crash"
    /\ fault' = "TypeError"
    /\ UNCHANGED <<conversation, console>>

\* mutant: the end_turn branch prints nothing
EndTurnOutput_Silent(message) == <<>>

\* what the end_turn branch prints: message["content"][0]["text"]
EndTurnOutput(message) == <<TextEvent(message.content[1].text)>>

\* _process_model_response: append the message, then branch on the stop reason
ProcessMessage(model_response) ==
    LET message == model_response.output.message
    IN  /\ conversation' = AppendMessage(conversation, message)
        /\ IF model_response.stopReason = "tool_use"
           THEN /\ pc' = "handle"
                /\ UNCHANGED <<console, fault>>
           ELSE IF model_response.stopReason = "end_turn"
           THEN IF Len(message.content) >= 1 /\ "text" \in DOMAIN message.content[1]
                THEN /\ console' = console \o EndTurnOutput(message)
                     /\ pc' = "await"
                     /\ UNCHANGED fault
                ELSE \* message["content"][0]["text"]: IndexError or KeyError
                     /\ pc' = "crash"
                     /\ fault' = "LookupError"
                     /\ UNCHANGED console
           ELSE \* neither if statement applies: the function returns
                /\ pc' = "await"
                /\ UNCHANGED <<console, fault>>

\* _process_model_response(model_response, conversation, max_recursion)
ProcessModelResponse ==
    /\ pc = "process"
    /\ IF RecursionReached(max_recursion) THEN ProcessExhausted
       ELSE IF response = None THEN ProcessNone
       ELSE ProcessMessage(response[1])
    /\ UNCHANGED <<response, max_recursion, image_message, transport, stops,
                   rounds, dispatched, turnStart, turnMark, rich>>
    /\ UNCHANGED toolVars

\* mutant: _handle_tool_use returns to the loop of run() after appending the results
AfterToolResults_Return == "await"

\* _handle_tool_use, after appending the tool results: the conversation is sent
\* again before the function returns
AfterToolResults == "send"

\* _handle_tool_use(model_response, conversation, max_recursion), up to the
\* endpoint call it makes
HandleToolUse ==
    /\ pc = "handle"
    /\ LET content == conversation[Len(conversation)].content
       IN  \E oc \in OutcomeChoices(content) :
             LET done == HandleBlocks(content, oc, 1, EmptyAcc)
             IN  /\ console' = console \o done.printed
                 /\ dispatched' = done.dispatched
                 /\ IF done.raised # "None"
                    THEN /\ pc' = "crash"
                         /\ fault' = done.raised
                         /\ UNCHANGED <<conversation, max_recursion>>
                    ELSE /\ conversation' = AppendMessage(conversation,
                                ToolResultMessage(done.tool_results))
                         /\ pc' = AfterToolResults
                         /\ max_recursion' = NextRecursion(max_recursion)
                         /\ UNCHANGED fault
    /\ rounds' = rounds + 1
    /\ UNCHANGED <<response, image_message, transport, stops, turnStart, turnMark, rich>>
    /\ UNCHANGED toolVars

Next ==
    \/ RunStart(MaxCalls)
    \/ RunNextInput(MaxCalls)
    \/ SendAnswered(MaxCalls)
    \/ SendClientError(MaxCalls)
    \/ SendException(MaxCalls)
    \/ ProcessModelResponse
    \/ HandleToolUse

Spec == Init /\ [][Next]_vars

\* the same program in a run long enough for a turn that follows a turn with
\* tool-use rounds
TwoTurnNext ==
    \/ RunStart(MaxCallsTwoTurns)
    \/ RunNextInput(MaxCallsTwoTurns)
    \/ SendAnswered(MaxCallsTwoTurns)
    \/ SendClientError(MaxCallsTwoTurns)
    \/ SendException(MaxCallsTwoTurns)
    \/ ProcessModelResponse
    \/ HandleToolUse

TwoTurnSpec == Init /\ [][TwoTurnNext]_vars

\* the endpoint call and each tool invocation return, and the thread runs on
FairSpec ==
    /\ Spec
    /\ WF_vars(SendAnswered(MaxCalls) \/ SendClientError(MaxCalls) \/ SendException(MaxCalls))
    /\ WF_vars(ProcessModelResponse)
    /\ WF_vars(HandleToolUse)

-----------------------------------------------------------------------------
(* What the claims speak of *)

IsPrefix(s, t) == Len(s) <= Len(t) /\ SubSeq(t, 1, Len(s)) = s

\* the console events of the current user turn
TurnConsole == SubSeq(console, turnMark + 1, Len(console))

TurnCalls == Calls(turnMark)
TurnDispatches == Len(SelectSeq(TurnConsole, LAMBDA e : e.ev = "tool_use"))
TurnSurfaced == SelectSeq(TurnConsole, LAMBDA e : e.ev = "model_response")

AllToolUse == \A i \in 1..Len(stops) : stops[i] = "tool_use"

InTurn == pc \in {"send", "process", "handle"}
Ended == pc \in {"footer", "exit", "crash"}

\* exceptions that left _invoke_tool
ToolExceptions == {"ValueError", "ModuleNotFoundError", "AttributeError"}

\* the toolUseIds a content asks for, and the ones it answers, in order
RECURSIVE RequestIds(_)
RequestIds(content) ==
    IF content = <<>> THEN <<>>
    ELSE IF "toolUse" \in DOMAIN Head(content)
         THEN <<Head(content).toolUse.toolUseId>> \o RequestIds(Tail(content))
         ELSE RequestIds(Tail(content))

RECURSIVE ResultIds(_)
ResultIds(content) ==
    IF content = <<>> THEN <<>>
    ELSE IF "toolResult" \in DOMAIN Head(content)
         THEN <<Head(content).toolResult.toolUseId>> \o ResultIds(Tail(content))
         ELSE ResultIds(Tail(content))

Requests(content) == SelectSeq(content, LAMBDA b : "toolUse" \in DOMAIN b)

\* a round of _handle_tool_use has just appended its user turn
RoundDone == pc = "send" /\ rounds > 0
ModelTurn == conversation[Len(conversation) - 1]
SynthTurn == conversation[Len(conversation)]

-----------------------------------------------------------------------------
(* Claims *)

\* C1: when the endpoint answers every request of a user turn with tool_use, the
\* turn ends in the recursion exit after exactly MAX_RECURSIONS rounds of
\* _handle_tool_use (MAX_RECURSIONS + 1 endpoint calls); the exit is reached with
\* no other count, and after it nothing is dispatched, called or read.
C1_ExhaustedAfterCeiling ==
    /\ [](/\ rounds <= MAX_RECURSIONS
          /\ (fault = "recursion" =>
                /\ pc = "exit"
                /\ rounds = MAX_RECURSIONS
                /\ TurnCalls = MAX_RECURSIONS + 1
                /\ Len(stops) >= MAX_RECURSIONS
                /\ \A i \in 1..MAX_RECURSIONS : stops[i] = "tool_use")
          /\ (AllToolUse /\ Len(stops) = MAX_RECURSIONS + 1 /\ pc # "process" =>
                fault = "recursion" /\ rounds = MAX_RECURSIONS))
    /\ [][pc = "exit" => UNCHANGED vars]_vars

C1_Witness ==
    /\ fault = "recursion" /\ AllToolUse /\ Len(stops) = MAX_RECURSIONS + 1
    /\ rounds = MAX_RECURSIONS

\* C2: with the endpoint call and the tool invocations returning, a user turn
\* that is being processed always comes to an end: back at the prompt, or the
\* process ended (recursion exit, transport exit, uncaught exception).
C2_TurnTerminates == InTurn ~> (pc = "await" \/ Ended)

C2_Witness == pc = "await" /\ rounds = MAX_RECURSIONS - 1 /\ Len(stops) = MAX_RECURSIONS

\* C3: _invoke_tool never throws: whatever the tool does, no exception leaves
\* the dispatcher and ends the orchestration loop.
C3_DispatcherNeverThrows == ~(pc = "crash" /\ dispatched # <<>> /\ fault \in ToolExceptions)

\* C4: the user turn _handle_tool_use appends holds exactly one toolResult per
\* toolUse request of the model turn, with the same toolUseIds in the same
\* order, and nothing else; each request was dispatched exactly once, in order
\* (and when a round is cut short, the dispatched ones are a prefix).
C4_ResultsMatchRequests ==
    /\ RoundDone =>
          /\ ResultIds(SynthTurn.content) = RequestIds(ModelTurn.content)
          /\ Len(SynthTurn.content) = Len(RequestIds(ModelTurn.content))
          /\ dispatched = RequestIds(ModelTurn.content)
          /\ SynthTurn.role = "user" /\ ModelTurn.role = "assistant"
    /\ pc = "crash" /\ fault \in ToolExceptions =>
          IsPrefix(dispatched, RequestIds(conversation[Len(conversation)].content))

C4_Witness ==
    /\ RoundDone
    /\ RequestIds(ModelTurn.content) = <<"t1", "t2">>
    /\ Len(ModelTurn.content) = 3
    /\ ResultIds(SynthTurn.content) = <<"t1", "t2">>

\* does the error message name the tool
Names(message, tool_name) == \E k \in 1..Len(message) : message[k] = tool_name

\* C5: a request for a tool that does not exist is answered by an error result
\* {error, message} whose message names the tool, under the request's
\* toolUseId; no ModuleNotFoundError leaves the dispatcher, and the result is in
\* the user turn sent to the model next.
C5_UnknownToolIsErrorResult ==
    /\ fault # "ModuleNotFoundError"
    /\ RoundDone =>
          \A i \in 1..Len(Requests(ModelTurn.content)) :
             LET req == Requests(ModelTurn.content)[i].toolUse
                 res == SynthTurn.content[i].toolResult
             IN  req.name \notin ToolModules =>
                   /\ res.toolUseId = req.toolUseId
                   /\ Len(res.content) = 1
                   /\ DOMAIN res.content[1] = {"error", "message"}
                   /\ res.content[1].error = "true"
                   /\ Names(res.content[1].message, req.name)

C5_Witness ==
    /\ RoundDone
    /\ \E i \in 1..Len(Requests(ModelTurn.content)) :
          /\ Requests(ModelTurn.content)[i].toolUse.name = "nonexistent_tool"
          /\ "error" \in DOMAIN SynthTurn.content[i].toolResult.content[1]

\* C6: the roles of the transcript alternate, starting with a user turn.
C6_RolesAlternate ==
    \A i \in 1..Len(conversation) :
       conversation[i].role = IF i % 2 = 1 THEN "user" ELSE "assistant"

C6_Witness ==
    /\ Len(conversation) >= 5
    /\ turnStart >= 2
    /\ stops # <<>> /\ stops[Len(stops)] = "max_tokens"
    /\ pc = "await"

\* C7: every step leaves the transcript as it was or appends one turn to it.
C7_AppendOnly ==
    [][/\ IsPrefix(conversation, conversation')
       /\ Len(conversation') <= Len(conversation) + 1]_vars

C7_Witness == Len(conversation) >= 4 /\ turnStart >= 2 /\ rounds >= 1

\* C8: once the endpoint call has failed (ClientError or any other exception)
\* the run only ends: the failing call and every later step append nothing,
\* call the endpoint no more, dispatch no tool and read no input, and the step
\* after the failure ends the process.
C8_TransportFailureIsFatal ==
    /\ [](transport # "none" => response = None /\ pc \in {"process", "exit", "crash"})
    /\ [][transport' # "none" =>
            /\ conversation' = conversation
            /\ TurnDispatches' = TurnDispatches
            /\ turnStart' = turnStart
            /\ Calls(0)' = Calls(0) + (IF transport = "none" THEN 1 ELSE 0)
            /\ (transport # "none" => pc' \in {"exit", "crash"})]_vars

C8_Witness == transport = "ClientError" /\ pc = "crash" /\ rounds >= 1

\* C9: a response whose stop reason is neither tool_use nor end_turn is
\* surfaced: by the time control is back at the prompt something was printed or
\* logged as an error after the endpoint call.
C9_UnhandledStopSurfaced ==
    (pc = "await" /\ stops # <<>> /\ stops[Len(stops)] \notin {"tool_use", "end_turn"})
       => console[Len(console)].ev # "call_to_bedrock"

-----------------------------------------------------------------------------
(* C11 *)

\* the current turn got k tool_use answers and then a well-formed end_turn
\* answer, which _process_model_response has been called on
EndTurnAfter(k) ==
    /\ Len(stops) = k + 1
    /\ \A i \in 1..k : stops[i] = "tool_use"
    /\ stops[k + 1] = "end_turn"
    /\ pc # "process"
    /\ response # None
    /\ Len(response[1].output.message.content) >= 1
    /\ "text" \in DOMAIN response[1].output.message.content[1]

\* the turn ended normally and the text of the last answer is the last thing printed
FinalTextSurfaced ==
    /\ pc \in {"await", "footer"}
    /\ fault = "none"
    /\ Len(TurnConsole) >= 1
    /\ TurnConsole[Len(TurnConsole)] = TextEvent(response[1].output.message.content[1].text)

\* C11 as stated: a turn of k <= MAX_RECURSIONS tool_use rounds followed by end_turn
\* is never aborted for the budget and ends with the final text printed
C11_WithinBudgetNeverAborted ==
    \A k \in 0..MAX_RECURSIONS : EndTurnAfter(k) => FinalTextSurfaced

\* C11 amended: a turn of k <= MAX_RECURSIONS - 1 tool_use rounds followed by end_turn
\* ends normally with the final text printed; after MAX_RECURSIONS rounds the
\* budget is 0 and the turn is aborted whatever the next answer is, end_turn included
C11_BelowBudgetNeverAborted ==
    /\ \A k \in 0..(MAX_RECURSIONS - 1) : EndTurnAfter(k) => FinalTextSurfaced
    /\ EndTurnAfter(MAX_RECURSIONS) => pc = "exit" /\ fault = "recursion"

C11_Witness == EndTurnAfter(MAX_RECURSIONS - 1) /\ FinalTextSurfaced /\ rounds = MAX_RECURSIONS - 1

-----------------------------------------------------------------------------
(* C20 *)

\* the step reads a line at the prompt: it appends a user turn that starts with
\* the typed text (synthesized tool-result turns hold no text block), or it
\* leaves the loop on the exit token
ReadsInput ==
    \/ /\ Len(conversation') = Len(conversation) + 1
       /\ conversation'[Len(conversation')].role = "user"
       /\ Len(conversation'[Len(conversation')].content) >= 1
       /\ "text" \in DOMAIN conversation'[Len(conversation')].content[1]
    \/ pc # "footer" /\ pc' = "footer"

\* tool requests of the current turn: the toolUse blocks of its answers that
\* stopped for tool_use (answer j of the turn is message turnStart + 2 * j)
TurnRequests ==
    LET F[j \in 0..Len(stops)] ==
            IF j = 0 THEN 0
            ELSE F[j - 1] + (IF stops[j] = "tool_use" /\ turnStart + 2 * j <= Len(conversation)
                             THEN Cardinality(ToolUseIndexes(conversation[turnStart + 2 * j].content))
                             ELSE 0)
    IN  F[Len(stops)]

\* nothing of the current turn is pending: the last answer is in the transcript,
\* it asked for no tool, every earlier round was answered with a result turn and
\* every tool requested in the turn was dispatched
TurnFullyProcessed ==
    /\ Len(stops) = rounds + 1
    /\ stops[Len(stops)] # "tool_use"
    /\ TurnCalls = rounds + 1
    /\ Len(conversation) = turnStart + 2 * rounds + 2
    /\ conversation[Len(conversation)].role = "assistant"
    /\ TurnDispatches = TurnRequests

\* C20: user input is read only between turns: never while an endpoint call, a
\* response or a tool round is pending, and only when the turn before it, with
\* all its tool-use rounds, has been fully processed
C20_OneTurnAtATime ==
    [][ReadsInput =>
          /\ pc \notin {"send", "process", "handle"}
          /\ conversation = <<>> \/ TurnFullyProcessed]_vars

C20_Witness == pc = "footer" /\ rounds >= 2 /\ TurnDispatches >= 2 /\ TurnFullyProcessed

-----------------------------------------------------------------------------
(* C22 *)

\* C22: _process_model_response appends the message of every response it is
\* called with to the transcript, whatever the stop reason and whatever is left
\* of the budget, the response the recursion exit is taken on included.
C22_ResponseAlwaysAppended ==
    [][pc = "process" /\ response # None =>
          conversation' = Append(conversation, response[1].output.message)]_vars

-----------------------------------------------------------------------------
(* C23 *)

\* _handle_tool_use is about to run on a model turn without a toolUse block
DegenerateRound ==
    pc = "handle" /\ ToolUseIndexes(conversation[Len(conversation)].content) = {}

\* C23: a round on a tool_use response without a toolUse block dispatches no
\* tool, appends one user turn with empty content, goes on to the endpoint call
\* with the budget lowered by exactly one, and the step after it is that call.
C23_DegenerateRoundStillSends ==
    [][/\ DegenerateRound =>
             /\ TurnDispatches' = TurnDispatches
             /\ dispatched' = <<>>
             /\ conversation' = Append(conversation, [role |-> "user", content |-> <<>>])
             /\ pc' = "send"
             /\ max_recursion' = max_recursion - 1
             /\ Calls(0)' = Calls(0)
       /\ (RoundDone /\ SynthTurn.content = <<>>) =>
             /\ Calls(0)' = Calls(0) + 1
             /\ conversation' = conversation
             /\ max_recursion' = max_recursion]_vars

C23_Witness ==
    /\ pc = "process" /\ response # None /\ rounds >= 1
    /\ SynthTurn = [role |-> "user", content |-> <<>>]
    /\ Requests(ModelTurn.content) = <<>>
    /\ stops[Len(stops) - 1] = "tool_use"
    /\ max_recursion = MAX_RECURSIONS - rounds
    /\ console[Len(console)] = CallEvent
    /\ TurnDispatches = rounds - 1

-----------------------------------------------------------------------------
(* C29 *)

\* the step accepts a user input: run() goes from a prompt to the endpoint call
StartsTurn == pc \in {"run", "await"} /\ pc' = "send"

\* a round of _handle_tool_use completes in the step
CompletesRound == pc = "handle" /\ pc' = "send"

\* a turn before the current one went through a tool-use round
EarlierRound ==
    \E i \in 1..turnStart :
       /\ conversation[i].role = "user"
       /\ \/ conversation[i].content = <<>>
          \/ "toolResult" \in DOMAIN conversation[i].content[1]

\* C29: the budget is per user turn: every accepted input starts with
\* MAX_RECURSIONS whatever earlier turns used; within a turn each completed
\* round lowers it by exactly one, nothing else changes it, and it stays in
\* 0..MAX_RECURSIONS.
C29_BudgetPerTurn ==
    /\ [](/\ max_recursion \in 0..MAX_RECURSIONS
          /\ InTurn => max_recursion = MAX_RECURSIONS - rounds)
    /\ [][/\ StartsTurn => max_recursion' = MAX_RECURSIONS
          /\ ~StartsTurn =>
                max_recursion' = max_recursion - (IF CompletesRound THEN 1 ELSE 0)]_vars

C29_Witness ==
    /\ EarlierRound
    /\ pc = "process" /\ rounds = 2
    /\ max_recursion = MAX_RECURSIONS - 2

-----------------------------------------------------------------------------
(* tools/computer.py: ComputerTool.scale_coordinates *)

\* widths tried against each display height when the choice of the target is checked
MaxWidth == 4096

\* the targets in the order the dictionary yields them
MAX_SCALING_TARGETS ==
    << [name |-> "XGA",   width |-> 1024, height |-> 768],
       [name |-> "WXGA",  width |-> 1280, height |-> 800],
       [name |-> "FWXGA", width |-> 1366, height |-> 768] >>

\* ComputerTool._scaling_enabled
scaling_enabled == TRUE

\* the 0.02 allowed between two aspect ratios, in hundredths
AspectTolerancePercent == 2

ScalingSource == {"computer", "api"}

Abs(n) == IF n < 0 THEN 0 - n ELSE n

\* abs(dimension["width"] / dimension["height"] - ratio) < 0.02 with
\* ratio = w / h, cross-multiplied so that it is decided in integers
RatioMatches(dimension, w, h) ==
    Abs(dimension.width * h - w * dimension.height) * 100
        < AspectTolerancePercent * dimension.height * h

\* round(p / q) for p >= 0, q > 0: to the nearest integer, a tie to the even one
Round(p, q) ==
    LET floor == p \div q
        rest == p % q
    IN  IF 2 * rest < q THEN floor
        ELSE IF 2 * rest > q THEN floor + 1
        ELSE IF floor % 2 = 0 THEN floor ELSE floor + 1

\* mutant: the target whose ratio matches is taken whatever its width
TargetDimension_WidthIgnored(w, h) ==
    LET matching == {i \in 1..Len(MAX_SCALING_TARGETS) : RatioMatches(MAX_SCALING_TARGETS[i], w, h)}
    IN  IF matching = {} THEN None
        ELSE Some(MAX_SCALING_TARGETS[CHOOSE i \in matching : \A j \in matching : i <= j])

\* the for loop of scale_coordinates: it stops at the first target whose ratio
\* matches and keeps it only if it is narrower than the display
TargetDimension(w, h) ==
    LET matching == {i \in 1..Len(MAX_SCALING_TARGETS) : RatioMatches(MAX_SCALING_TARGETS[i], w, h)}
        first == CHOOSE i \in matching : \A j \in matching : i <= j
    IN  IF matching = {} THEN None
        ELSE IF MAX_SCALING_TARGETS[first].width < w THEN Some(MAX_SCALING_TARGETS[first])
        ELSE None

\* what a call returns or raises
Returned(value) == [raised |-> "None", value |-> Some(value)]
Raised(exception) == [raised |-> exception, value |-> None]

\* mutant: the scaled-up coordinate is handed back as it is
ScaleDown_Unscaled(v, target, physical) == v

\* round(v / (target / physical)) and round(v * (target / physical))
ScaleUp(v, target, physical) == Round(v * physical, target)
ScaleDown(v, target, physical) == Round(v * target, physical)

\* scale_coordinates(source, x, y) on a display of w by h
ScaleCoordinates(w, h, source, x, y) ==
    LET target_dimension == TargetDimension(w, h)
    IN  IF ~scaling_enabled THEN Returned(<<x, y>>)
        ELSE IF target_dimension = None THEN Returned(<<x, y>>)
        ELSE IF source = "api"
        THEN IF x > w \/ y > h THEN Raised("ToolError")
             ELSE Returned(<<ScaleUp(x, target_dimension[1].width, w),
                             ScaleUp(y, target_dimension[1].height, h)>>)
        ELSE Returned(<<ScaleDown(x, target_dimension[1].width, w),
                        ScaleDown(y, target_dimension[1].height, h)>>)

\* displays get_screen_resolution() is run on: the three targets themselves, a
\* narrower 4:3 one, wider ones of each ratio, and ratios that match no target
Geometries ==
    { [width |-> 1024, height |-> 768],  [width |-> 1280, height |-> 800],
      [width |-> 1366, height |-> 768],  [width |-> 800,  height |-> 600],
      [width |-> 1600, height |-> 1200], [width |-> 1440, height |-> 900],
      [width |-> 1920, height |-> 1080], [width |-> 1280, height |-> 1024],
      [width |-> 1512, height |-> 982] }

\* coordinates along an axis of n pixels, and its ends with the first one past it
Axis(n) == 0..(n + 1)
Edge(n) == {0, n, n + 1}

\* the (x, y) a call is made with: every x at the ends of y, every y at the ends of x
CoordinateSamples(w, h) == (Axis(w) \X Edge(h)) \cup (Edge(w) \X Axis(h))

ScaleInit ==
    /\ OrchestratorInit /\ NoScaling /\ NoComputerRun /\ NoDiscovery /\ NoDispatch
    /\ \E g \in Geometries : width = g.width /\ height = g.height
    /\ additional_model_request_fields = None

\* the "computer" entry of additional_model_request_fields["tools"] that
\* ToolUseDemo.__init__ builds from get_screen_resolution()
AdditionalModelRequestFields(w, h) ==
    [type |-> "computer_20241022", name |-> "computer",
     display_height_px |-> h, display_width_px |-> w, display_number |-> 0]

\* ToolUseDemo.__init__, before any request of the model reaches the tool
Construct ==
    /\ additional_model_request_fields = None
    /\ additional_model_request_fields' = Some(AdditionalModelRequestFields(width, height))
    /\ UNCHANGED <<width, height, orchestratorVars, scaleVars, computerVars,
                   discoveryVars, dispatchVars>>

\* a call with coordinates of the model (api) or of the cursor (computer)
ScaleFresh ==
    /\ additional_model_request_fields # None
    /\ scale_args = None
    /\ \E source \in ScalingSource :
        \E c \in IF source = "api" THEN CoordinateSamples(width, height)
                  ELSE Edge(width) \X Edge(height) :
          /\ scale_args' = Some([source |-> source, x |-> c[1], y |-> c[2]])
          /\ scale_result' = Some(ScaleCoordinates(width, height, source, c[1], c[2]))
    /\ UNCHANGED <<scale_origin, orchestratorVars, displayVars, computerVars, discoveryVars, dispatchVars>>

\* the position mouse_move put the cursor at is read back by cursor_position
ScaleBack ==
    /\ scale_args # None /\ scale_origin = None
    /\ scale_args[1].source = "api"
    /\ scale_result[1].raised = "None"
    /\ LET at == scale_result[1].value[1]
       IN  /\ scale_origin' = Some(<<scale_args[1].x, scale_args[1].y>>)
           /\ scale_args' = Some([source |-> "computer", x |-> at[1], y |-> at[2]])
           /\ scale_result' = Some(ScaleCoordinates(width, height, "computer", at[1], at[2]))
    /\ UNCHANGED <<orchestratorVars, displayVars, computerVars, discoveryVars, dispatchVars>>

ScaleNext == Construct \/ ScaleFresh \/ ScaleBack

ScaleSpec == ScaleInit /\ [][ScaleNext]_vars

-----------------------------------------------------------------------------
(* C15 *)

\* C15: scaling API coordinates up and the result down again gives back the
\* coordinates to within 1 on each axis, for every display a target is
\* selected for and every pair scale_coordinates accepts
C15_RoundTripWithinOne ==
    scale_origin # None =>
        /\ scale_result[1].raised = "None"
        /\ Abs(scale_result[1].value[1][1] - scale_origin[1][1]) <= 1
        /\ Abs(scale_result[1].value[1][2] - scale_origin[1][2]) <= 1

\* a round trip on a display that is scaled, through a position that differs
\* from the API coordinates on both axes
C15_Witness ==
    /\ scale_origin # None
    /\ TargetDimension(width, height) # None
    /\ scale_args[1].x > scale_origin[1][1] /\ scale_args[1].y > scale_origin[1][2]
    /\ scale_result[1].value[1] = scale_origin[1]

-----------------------------------------------------------------------------
(* C16 *)

\* the first target, in order, whose ratio matches and whose width is smaller
FirstFitting(w, h) ==
    LET fitting == {i \in 1..Len(MAX_SCALING_TARGETS) :
                       /\ RatioMatches(MAX_SCALING_TARGETS[i], w, h)
                       /\ MAX_SCALING_TARGETS[i].width < w}
    IN  IF fitting = {} THEN None
        ELSE Some(MAX_SCALING_TARGETS[CHOOSE i \in fitting : \A j \in fitting : i <= j])

\* C16: the target used is the first of XGA, WXGA, FWXGA whose ratio is within
\* 0.02 of the display's and whose width is smaller than the display's, so
\* stopping at the first ratio match changes nothing; without such a target the
\* coordinates come back unchanged for both sources
C16_FirstFittingPreset ==
    /\ TargetDimension(width, height) = FirstFitting(width, height)
    /\ scale_args = None =>
          \A w \in 1..MaxWidth : TargetDimension(w, height) = FirstFitting(w, height)
    /\ scale_args # None /\ FirstFitting(width, height) = None =>
          scale_result[1] = Returned(<<scale_args[1].x, scale_args[1].y>>)
    /\ scale_args # None /\ FirstFitting(width, height) # None /\ scale_result[1].raised = "None" =>
          LET t == FirstFitting(width, height)[1]
              into == scale_result[1].value[1]
          IN  IF scale_args[1].source = "api"
              THEN into = <<Round(scale_args[1].x * width, t.width),
                            Round(scale_args[1].y * height, t.height)>>
              ELSE into = <<Round(scale_args[1].x * t.width, width),
                            Round(scale_args[1].y * t.height, height)>>

\* a display whose ratio matches a target that is not narrower: the loop stops
\* there and the computer-source coordinates come back unchanged
C16_Witness ==
    /\ scale_args # None /\ scale_args[1].source = "computer" /\ scale_origin = None
    /\ \E i \in 1..Len(MAX_SCALING_TARGETS) :
          RatioMatches(MAX_SCALING_TARGETS[i], width, height) /\ MAX_SCALING_TARGETS[i].width > width
    /\ scale_args[1].x > 0
    /\ scale_result[1] = Returned(<<scale_args[1].x, scale_args[1].y>>)

-----------------------------------------------------------------------------
(* C17 *)

\* C17: API coordinates beyond the physical width or height are rejected with
\* a validation error on every display, scaled or not, and never returned
C17_OutOfBoundsRejected ==
    (/\ scale_args # None /\ scale_args[1].source = "api"
     /\ (scale_args[1].x > width \/ scale_args[1].y > height))
        => scale_result[1].raised = "ToolError"

-----------------------------------------------------------------------------
(* C24 *)

\* C24: on a display a target is selected for, the display size sent to the
\* model is scale_coordinates(COMPUTER, width, height), the size of the target,
\* and not the physical size
C24_AdvertisedSizeIsScaled ==
    (additional_model_request_fields # None /\ TargetDimension(width, height) # None) =>
        <<additional_model_request_fields[1].display_width_px,
          additional_model_request_fields[1].display_height_px>>
            = ScaleCoordinates(width, height, "computer", width, height).value[1]

-----------------------------------------------------------------------------
(* C28 *)

\* C28: on a display a target is selected for, the API coordinates that
\* scale_coordinates accepts are scaled up to a position on the physical
\* display: 0 <= x' <= width and 0 <= y' <= height
C28_ScaledUpWithinDisplay ==
    (/\ scale_args # None /\ scale_args[1].source = "api"
     /\ TargetDimension(width, height) # None
     /\ scale_result[1].raised = "None")
        => /\ scale_result[1].value[1][1] \in 0..width
           /\ scale_result[1].value[1][2] \in 0..height

-----------------------------------------------------------------------------
(* tools/computer.py: ComputerTool.__call__, screenshot, shell and invoke *)

TYPING_GROUP_SIZE == 50

\* ComputerTool._screenshot_delay, in seconds
screenshot_delay == 2

\* values of the tool input, tagged with their Python type; a string is the
\* list of its character codes
PyStr(s) == [str |-> s]
PyInt(n) == [int |-> n]
PyBool(b) == [bool |-> b]
PyFloat(f) == [float |-> f]
PyList(l) == [list |-> l]

IsStr(v) == "str" \in DOMAIN v
IsList(v) == "list" \in DOMAIN v
\* isinstance(v, int): bool is a subclass of int
IsInt(v) == "int" \in DOMAIN v \/ "bool" \in DOMAIN v
IntValue(v) == IF "int" \in DOMAIN v THEN v.int ELSE IF v.bool THEN 1 ELSE 0

\* the Action literal
Actions ==
    {"key", "type", "mouse_move", "left_click", "left_click_drag", "right_click",
     "middle_click", "double_click", "screenshot", "cursor_position"}

\* a text of n characters with spaces and single quotes in it
Sample(n) == [i \in 1..n |-> IF i % 7 = 0 THEN 39 ELSE IF i % 5 = 0 THEN 32 ELSE 97 + (i % 26)]

\* the text field: absent, strings around the chunk size, the name of a key, a number
TextInputs ==
    {None, Some(PyStr(<<>>)), Some(PyStr(<<82>>)), Some(PyStr(Sample(50))), Some(PyStr(Sample(51))),
     Some(PyStr(Sample(120))), Some(PyInt(5))}

\* elements of a coordinate list
CoordinateElements == {PyInt(0 - 1), PyInt(0), PyInt(1000), PyInt(5000), PyBool(TRUE), PyFloat("1.5")}

\* the coordinate field: absent, lists of one, two and three elements, a string
CoordinateInputs ==
    {None, Some(PyStr(<<49, 44, 50>>)), Some(PyList(<<PyInt(0)>>)), Some(PyList(<<PyInt(0), PyInt(0), PyInt(0)>>))}
        \cup {Some(PyList(<<a, b>>)) : a \in CoordinateElements, b \in CoordinateElements}

\* the input of a tool request: the action may be missing or unknown, and a key
\* the call does not take may be present
ComputerInputs ==
    [action : {None} \cup {Some(a) : a \in Actions \cup {"scroll"}},
     text : TextInputs,
     coordinate : CoordinateInputs,
     unexpected : {FALSE}]
        \cup [action : {Some("screenshot"), Some("key")}, text : {None, Some(PyStr(<<82>>))},
               coordinate : {None}, unexpected : {TRUE}]

\* run() calls of one invoke that may be the one to raise
MaxRunCalls == 5

\* what the surroundings do during one run: the run() call that raises (0 for
\* none), whether commands print, whether the key mapping can be read (key
\* only), whether the capture file is there, and whether cliclick p: prints a
\* position (cursor_position only)
Environments(input) ==
    [fail_at : 0..MaxRunCalls, noisy : BOOLEAN, file_exists : BOOLEAN,
     key_mapping : IF input.action = Some("key") THEN BOOLEAN ELSE {TRUE},
     position : IF input.action = Some("cursor_position") THEN BOOLEAN ELSE {TRUE}]

\* the outcome of a call: the commands issued so far, the exception raised
\* ("None" when the call returned), and the value returned
Ok(log, value) == [log |-> log, raised |-> "None", message |-> "", value |-> Some(value)]
Fail(log, exception, message) == [log |-> log, raised |-> exception, message |-> message, value |-> None]

\* ToolResult(output, error, image_bytes); an empty list is None or ""
ToolResultOf(output, error, image_bytes) ==
    [output |-> output, error |-> error, image_bytes |-> image_bytes]

\* where the cursor is when cliclick p: is asked
CursorPosition == <<700, 500>>

RunsIn(log) == Cardinality({i \in 1..Len(log) : "run" \in DOMAIN log[i]})

\* run(command): the command is issued; it raises or returns stdout and stderr
Run(command, env, log) ==
    LET issued == Append(log, command)
    IN  IF env.fail_at = RunsIn(log) + 1 THEN Fail(issued, "TimeoutError", "run")
        ELSE Ok(issued,
                [stdout |-> IF command.run = "cliclick p:"
                            THEN (IF env.position THEN <<"position">> ELSE <<>>)
                            ELSE (IF env.noisy THEN <<"stdout">> ELSE <<>>),
                 stderr |-> IF env.noisy THEN <<"stderr">> ELSE <<>>])

\* shell(command, take_screenshot=False), from what run() did
ShellResult(ran) ==
    IF ran.raised # "None" THEN ran
    ELSE Ok(ran.log, ToolResultOf(ran.value[1].stdout, ran.value[1].stderr, None))

ShellOnly(command, env, log) == ShellResult(Run(command, env, log))

\* the size screenshots are resized to
ScaledSize(w, h) == ScaleCoordinates(w, h, "computer", w, h).value[1]

\* screenshot(): the resize, whose failure is logged and ignored
Resized(captured, env, w, h) ==
    IF scaling_enabled
    THEN ShellOnly([run |-> "convert -resize", x |-> ScaledSize(w, h)[1], y |-> ScaledSize(w, h)[2]],
                   env, captured.log).log
    ELSE captured.log

\* screenshot(): the file is read back if it exists
ReadBack(captured, resized, env) ==
    IF captured.raised # "None" THEN captured
    ELSE IF env.file_exists
    THEN Ok(Append(resized, [read |-> "screenshot"]),
            [captured.value[1] EXCEPT !.image_bytes = Some(Len(resized) + 1)])
    ELSE Fail(resized, "ToolError", "Failed to take screenshot")

ScreenshotOf(captured, env, w, h) == ReadBack(captured, Resized(captured, env, w, h), env)

\* screenshot(): capture, resize to the scaled-down size, read the file back
Screenshot(env, log, w, h) == ScreenshotOf(ShellOnly([run |-> "screencapture"], env, log), env, w, h)

\* shell(): the result carries the bytes of the screenshot
WithScreenshot(ran, shot) ==
    IF shot.raised # "None" THEN shot
    ELSE Ok(shot.log, ToolResultOf(ran.value[1].stdout, ran.value[1].stderr,
                                   shot.value[1].image_bytes))

\* mutant: the screenshot is taken as soon as the command has returned
ShellOf_NoDelay(ran, take_screenshot, env, w, h) ==
    IF ran.raised # "None" THEN ran
    ELSE IF ~take_screenshot THEN ShellResult(ran)
    ELSE WithScreenshot(ran, Screenshot(env, ran.log, w, h))

\* shell(): with a screenshot, the delay comes first
ShellOf(ran, take_screenshot, env, w, h) ==
    IF ran.raised # "None" THEN ran
    ELSE IF ~take_screenshot THEN ShellResult(ran)
    ELSE WithScreenshot(ran, Screenshot(env, Append(ran.log, [sleep |-> screenshot_delay]), w, h))

\* shell(command, take_screenshot)
Shell(command, take_screenshot, env, log, w, h) ==
    ShellOf(Run(command, env, log), take_screenshot, env, w, h)

\* except Exception as e: return ToolResult(error=str(e))
ErrorResult(outcome) ==
    IF outcome.raised = "None" THEN outcome
    ELSE Ok(outcome.log, ToolResultOf(None, <<"error", outcome.raised>>, None))

\* chunks(s, chunk_size)
RECURSIVE chunks(_, _)
chunks(s, chunk_size) ==
    IF Len(s) = 0 THEN <<>>
    ELSE IF Len(s) <= chunk_size THEN <<s>>
    ELSE <<SubSeq(s, 1, chunk_size)>> \o chunks(SubSeq(s, chunk_size + 1, Len(s)), chunk_size)

\* characters shlex.quote leaves alone
Safe(c) ==
    c \in (97..122) \cup (65..90) \cup (48..57) \cup {64, 37, 43, 61, 58, 44, 46, 47, 45, 95}

\* s.replace("'", "'\"'\"'")
RECURSIVE Escaped(_)
Escaped(s) ==
    IF s = <<>> THEN <<>>
    ELSE (IF Head(s) = 39 THEN <<39, 34, 39, 34, 39>> ELSE <<Head(s)>>) \o Escaped(Tail(s))

\* shlex.quote(s)
Quote(s) ==
    IF s = <<>> THEN <<39, 39>>
    ELSE IF \A i \in 1..Len(s) : Safe(s[i]) THEN s
    ELSE <<39>> \o Escaped(s) \o <<39>>

\* cliclick_key_mapping.json: names of keys and the cliclick arguments for them
key_mapping == [name \in {<<82>>} |-> <<107, 112>>]

\* key_mapping.get(text, text)
MappedKey(text) == IF text \in DOMAIN key_mapping THEN key_mapping[text] ELSE text

\* mutant: the chunks are typed with the default take_screenshot
TypeTakesScreenshot_Default == TRUE

\* the take_screenshot argument of the shell calls of the type action
TypeTakesScreenshot == FALSE

\* the for loop of the type action: one shell call per chunk, results collected
RECURSIVE TypeChunks(_, _, _, _, _, _)
TypeNext(typed, todo, results, env, w, h) ==
    IF typed.raised # "None" THEN typed
    ELSE TypeChunks(Tail(todo), Append(results, typed.value[1]), env, typed.log, w, h)

TypeChunks(todo, results, env, log, w, h) ==
    IF todo = <<>> THEN Ok(log, results)
    ELSE TypeNext(Shell([run |-> "cliclick t:", arg |-> Quote(Head(todo))],
                        TypeTakesScreenshot, env, log, w, h),
                  todo, results, env, w, h)

\* "".join(result.output or "" for result in results)
RECURSIVE Joined(_, _)
Joined(results, field) ==
    IF results = <<>> THEN <<>>
    ELSE (IF field = "output" THEN Head(results).output ELSE Head(results).error)
            \o Joined(Tail(results), field)

\* the result of the type action: joined outputs and errors, and the screenshot
Aggregated(typed, shot) ==
    IF shot.raised # "None" THEN shot
    ELSE Ok(shot.log, ToolResultOf(Joined(typed.value[1], "output"),
                                   Joined(typed.value[1], "error"),
                                   shot.value[1].image_bytes))

\* the type action after its loop: one screenshot
TypeResult(typed, env, w, h) ==
    IF typed.raised # "None" THEN typed
    ELSE Aggregated(typed, Screenshot(env, typed.log, w, h))

\* the coordinate a command is given: as passed when nothing is scaled
Rendered(element, scaled, w, h) ==
    IF ~scaling_enabled \/ TargetDimension(w, h) = None THEN element ELSE PyInt(scaled)

\* mouse_move and left_click_drag once the coordinate is validated
MouseRun(action, given, scaled, env, w, h) ==
    IF scaled.raised # "None" THEN Fail(<<>>, "ToolError", "out of bounds")
    ELSE ErrorResult(
           Shell([run |-> IF action = "mouse_move" THEN "cliclick m:" ELSE "cliclick dd:. du:",
                  x |-> Rendered(given[1], scaled.value[1][1], w, h),
                  y |-> Rendered(given[2], scaled.value[1][2], w, h)],
                 TRUE, env, <<>>, w, h))

\* __call__ for mouse_move and left_click_drag
MouseCall(action, text, coordinate, env, w, h) ==
    IF coordinate = None THEN Fail(<<>>, "ToolError", "coordinate is required")
    ELSE IF text # None THEN Fail(<<>>, "ToolError", "text is not accepted")
    ELSE IF ~IsList(coordinate[1]) \/ Len(coordinate[1].list) # 2
    THEN Fail(<<>>, "ToolError", "must be a tuple of length 2")
    ELSE IF ~(\A i \in 1..2 : IsInt(coordinate[1].list[i]) /\ IntValue(coordinate[1].list[i]) >= 0)
    THEN Fail(<<>>, "ToolError", "must be a tuple of non-negative ints")
    ELSE MouseRun(action, coordinate[1].list,
                  ScaleCoordinates(w, h, "api", IntValue(coordinate[1].list[1]),
                                   IntValue(coordinate[1].list[2])),
                  env, w, h)

\* __call__ for key and type
KeyboardCall(action, text, coordinate, env, w, h) ==
    IF text = None THEN Fail(<<>>, "ToolError", "text is required")
    ELSE IF coordinate # None THEN Fail(<<>>, "ToolError", "coordinate is not accepted")
    ELSE IF ~IsStr(text[1]) THEN Fail(<<>>, "ToolError", "must be a string")
    ELSE IF action = "key"
    THEN IF ~env.key_mapping THEN Fail(<<>>, "FileNotFoundError", "key mapping")
         ELSE ErrorResult(Shell([run |-> "cliclick", arg |-> MappedKey(text[1].str)],
                                TRUE, env, <<>>, w, h))
    ELSE TypeResult(TypeChunks(chunks(text[1].str, TYPING_GROUP_SIZE), <<>>, env, <<>>, w, h),
                    env, w, h)

\* the cliclick argument of each click
ClickArg(action) ==
    CASE action = "left_click" -> "c:."
      [] action = "right_click" -> "rc:."
      [] action = "middle_click" -> "mc:."
      [] action = "double_click" -> "dc:."

\* cursor_position: the printed position is parsed and scaled down
PositionResult(result, w, h) ==
    IF result.raised # "None" THEN result
    ELSE IF result.value[1].output # <<"position">>
    THEN Fail(result.log, "ValueError", "invalid literal for int()")
    ELSE Ok(result.log,
            [result.value[1] EXCEPT !.output =
                <<"X=", ScaleCoordinates(w, h, "computer", CursorPosition[1], CursorPosition[2]).value[1][1],
                  "Y=", ScaleCoordinates(w, h, "computer", CursorPosition[1], CursorPosition[2]).value[1][2]>>])

\* what the six actions without parameters do once validated
ClickRun(action, env, w, h) ==
    IF action = "screenshot" THEN Screenshot(env, <<>>, w, h)
    ELSE IF action = "cursor_position"
    THEN PositionResult(Shell([run |-> "cliclick p:"], FALSE, env, <<>>, w, h), w, h)
    ELSE Shell([run |-> "cliclick", arg |-> ClickArg(action)], TRUE, env, <<>>, w, h)

\* mutant: the click is performed before its parameters are looked at
ClickCall_RunFirst(action, text, coordinate, env, w, h) ==
    IF text # None THEN Fail(ClickRun(action, env, w, h).log, "ToolError", "text is not accepted")
    ELSE IF coordinate # None
    THEN Fail(ClickRun(action, env, w, h).log, "ToolError", "coordinate is not accepted")
    ELSE ClickRun(action, env, w, h)

\* mutant: the six actions take a text
ClickCall_TextAllowed(action, text, coordinate, env, w, h) ==
    IF coordinate # None THEN Fail(<<>>, "ToolError", "coordinate is not accepted")
    ELSE ClickRun(action, env, w, h)

\* __call__ for the clicks, screenshot and cursor_position
ClickCall(action, text, coordinate, env, w, h) ==
    IF text # None THEN Fail(<<>>, "ToolError", "text is not accepted")
    ELSE IF coordinate # None THEN Fail(<<>>, "ToolError", "coordinate is not accepted")
    ELSE ClickRun(action, env, w, h)

\* ComputerTool.__call__(action, text, coordinate)
Call(action, text, coordinate, env, w, h) ==
    IF action \in {"mouse_move", "left_click_drag"} THEN MouseCall(action, text, coordinate, env, w, h)
    ELSE IF action \in {"key", "type"} THEN KeyboardCall(action, text, coordinate, env, w, h)
    ELSE IF action \in {"left_click", "right_click", "double_click", "middle_click",
                        "screenshot", "cursor_position"}
    THEN ClickCall(action, text, coordinate, env, w, h)
    ELSE Fail(<<>>, "ToolError", "Invalid action")

\* computer(**input_data): the keywords must be the ones __call__ takes
Called(input, env, w, h) ==
    IF input.unexpected \/ input.action = None THEN Fail(<<>>, "TypeError", "keyword arguments")
    ELSE Call(input.action[1], input.text, input.coordinate, env, w, h)

\* bool(v) of an output, an error or image bytes
Truthy(v) == v # <<>>

\* mutant: invoke handles ToolError only
Caught_ToolErrorOnly(exception) == exception = "ToolError"

\* the exceptions 'except Exception' handles: all that are raised here
Caught(exception) == TRUE

\* the error payload of invoke
ErrorPayload(exception, message) == [json |-> [error |-> exception, message |-> message]]

\* invoke: the body of the try statement after the call
Built(called) ==
    IF called.raised # "None" THEN Fail(called.log, called.raised, called.message)
    ELSE IF Truthy(called.value[1].error) \/ Truthy(called.value[1].output)
    THEN \* tool_result_content["json"] of an empty dictionary
         Fail(called.log, "KeyError", "json")
    ELSE Ok(called.log,
            IF Truthy(called.value[1].image_bytes)
            THEN [image |-> [format |-> "png",
                             source |-> [bytes |-> called.value[1].image_bytes[1]]]]
            ELSE <<>>)

\* invoke: what is returned, or the exception that leaves it
Returning(called, built) ==
    [called |-> called,
     payload |-> IF built.raised = "None" THEN built.value
                 ELSE IF Caught(built.raised) THEN Some(ErrorPayload(built.raised, built.message))
                 ELSE None,
     escaped |-> IF built.raised = "None" \/ Caught(built.raised) THEN "None" ELSE built.raised]

InvokeOf(called) == Returning(called, Built(called))

\* invoke(input_data): [called, payload, escaped]
Invoke(input, env, w, h) == InvokeOf(Called(input, env, w, h))

\* the displays the tool is run on: one that is not scaled and two that are
Displays == {g \in Geometries : g.width \in {1024, 1440, 1920}}

\* a tool request for the computer tool arrives on some display
ComputerInit ==
    /\ OrchestratorInit /\ NoScaling /\ NoDiscovery /\ NoDispatch
    /\ \E g \in Displays : width = g.width /\ height = g.height
    /\ additional_model_request_fields = None
    /\ input_data \in {Some(i) : i \in ComputerInputs}
    /\ shell_log = <<>> /\ call_outcome = None /\ tool_result_content = None /\ escaped = "None"

\* invoke has run: what it did and what it gave back
ComputerReturn(done) ==
    /\ call_outcome' = Some([done.called EXCEPT !.log = <<>>])
    /\ shell_log' = done.called.log
    /\ tool_result_content' = done.payload
    /\ escaped' = done.escaped

\* invoke(input_data), from the call to its return
ComputerInvoke ==
    /\ input_data # None /\ call_outcome = None
    /\ \E env \in Environments(input_data[1]) :
          ComputerReturn(Invoke(input_data[1], env, width, height))
    /\ UNCHANGED <<input_data, orchestratorVars, displayVars, scaleVars, discoveryVars, dispatchVars>>

ComputerNext == ComputerInvoke

ComputerSpec == ComputerInit /\ [][ComputerNext]_vars

-----------------------------------------------------------------------------
(* converse_model.py: ToolUseDemo._load_tool_configs *)

\* files os.listdir returns at most
MaxUnits == 3

\* what the tools directory can hold: a file name, whether the name is in
\* IgnoreTool.TOOL_LIST, and what importing the module and calling its
\* tool_config does
Units ==
    { [file |-> "weather_tool.py", ignored |-> FALSE, load |-> "ok"],
      [file |-> "file_reader.py", ignored |-> FALSE, load |-> "ok"],
      [file |-> "computer.py", ignored |-> FALSE, load |-> "no tool_config"],
      [file |-> "needs_missing_module.py", ignored |-> FALSE, load |-> "import ModuleNotFoundError"],
      [file |-> "broken_import.py", ignored |-> FALSE, load |-> "import ImportError"],
      [file |-> "failing_config.py", ignored |-> FALSE, load |-> "tool_config KeyError"],
      [file |-> "__init__.py", ignored |-> TRUE, load |-> "ok"],
      [file |-> "ignored_tool.py", ignored |-> TRUE, load |-> "ok"],
      [file |-> "README.md", ignored |-> FALSE, load |-> "ok"] }

\* filename.endswith('.py')
EndsWithPy(file) == file # "README.md"

\* the directory listings: the files in any order
RECURSIVE Orders(_)
Orders(n) ==
    IF n = 0 THEN {<<>>}
    ELSE {Append(s, u) : s \in Orders(n - 1), u \in Units}

Distinct(s) == \A i, j \in 1..Len(s) : i # j => s[i].file # s[j].file

Listings == {s \in UNION {Orders(n) : n \in 0..MaxUnits} : Distinct(s)}

\* tool_config() of a module that loads
Descriptor(unit) == [toolSpec |-> [name |-> unit.file]]

\* the exception the body of the try statement raises for a unit ("None" for none)
LoadRaises(unit) ==
    CASE unit.load = "ok" -> "None"
      [] unit.load = "no tool_config" -> "AttributeError"
      [] unit.load = "import ModuleNotFoundError" -> "ModuleNotFoundError"
      [] unit.load = "import ImportError" -> "ImportError"
      [] unit.load = "tool_config KeyError" -> "KeyError"

\* except (ModuleNotFoundError, AttributeError)
LoadHandled(exception) == exception \in {"ModuleNotFoundError", "AttributeError"}

\* the for loop of _load_tool_configs from file i on
RECURSIVE LoadFrom(_, _, _)
LoadFrom(files, i, configs) ==
    IF i > Len(files) THEN Returned(configs)
    ELSE IF ~EndsWithPy(files[i].file) \/ files[i].ignored THEN LoadFrom(files, i + 1, configs)
    ELSE IF LoadRaises(files[i]) = "None"
    THEN LoadFrom(files, i + 1, Append(configs, Descriptor(files[i])))
    ELSE IF LoadHandled(LoadRaises(files[i])) THEN LoadFrom(files, i + 1, configs)
    ELSE Raised(LoadRaises(files[i]))

\* return tool_configs if tool_configs else None
NoneIfEmpty(loaded) ==
    IF loaded.raised = "None" /\ loaded.value[1] = <<>> THEN [raised |-> "None", value |-> None]
    ELSE loaded

\* _load_tool_configs()
LoadToolConfigs(directory) ==
    IF ~directory.exists THEN Returned(<<>>)
    ELSE NoneIfEmpty(LoadFrom(directory.files, 1, <<>>))

DiscoveryInit ==
    /\ OrchestratorInit /\ NoDisplay /\ NoScaling /\ NoComputerRun /\ NoDispatch
    /\ listing \in {Some([exists |-> FALSE, files |-> <<>>])}
                   \cup {Some([exists |-> TRUE, files |-> s]) : s \in Listings}
    /\ tool_configs = None

\* __init__ calls _load_tool_configs once
Discover ==
    /\ listing # None /\ tool_configs = None
    /\ tool_configs' = Some(LoadToolConfigs(listing[1]))
    /\ UNCHANGED <<listing, orchestratorVars, displayVars, scaleVars, computerVars, dispatchVars>>

DiscoveryNext == Discover

DiscoverySpec == DiscoveryInit /\ [][DiscoveryNext]_vars

-----------------------------------------------------------------------------
(* converse_model.py: ToolUseDemo._invoke_tool against the tools directory *)

\* the names a tool request can carry, each with the file of the module
\* tools.<name> (bash is advertised to the model and has no module)
ModuleFiles ==
    { <<"weather_tool", "weather_tool.py">>,
      <<"file_reader", "file_reader.py">>,
      <<"computer", "computer.py">>,
      <<"needs_missing_module", "needs_missing_module.py">>,
      <<"broken_import", "broken_import.py">>,
      <<"failing_config", "failing_config.py">>,
      <<"__init__", "__init__.py">>,
      <<"ignored_tool", "ignored_tool.py">>,
      <<"nonexistent_tool", "nonexistent_tool.py">>,
      <<"bash", "bash.py">> }

RequestNames == {m[1] : m \in ModuleFiles}
ModuleFile(tool_name) == (CHOOSE m \in ModuleFiles : m[1] = tool_name)[2]

\* where the directory holds the file of tools.<tool_name>
FoundAt(files, tool_name) == {i \in 1..Len(files) : files[i].file = ModuleFile(tool_name)}

\* the exception executing the module raises on import ("None" for none)
ImportRaises(unit) ==
    CASE unit.load = "import ModuleNotFoundError" -> "ModuleNotFoundError"
      [] unit.load = "import ImportError" -> "ImportError"
      [] OTHER -> "None"

\* getattr(tool_module, 'invoke') finds the function
DefinesInvoke(unit) == unit.file # "__init__.py"

\* what invoke(input_data) of the module can do: computer.invoke catches what
\* it raises; the others call input_data.get before their try statement
\* (AttributeError when the input is not an object) and can raise otherwise
UnitInvokeOutcomes(unit) ==
    IF unit.file = "computer.py"
    THEN {[returns |-> [json |-> "ok"]]}
    ELSE {[returns |-> [json |-> "ok"]], [raises |-> "AttributeError"], [raises |-> "ValueError"]}

\* mutant: the entry point is looked up and not called
TryUnit_NotCalled(unit, outcome) ==
    IF ImportRaises(unit) # "None" THEN [raises |-> ImportRaises(unit)]
    ELSE IF unit.file = "__init__.py" THEN [raises |-> "AttributeError"]
    ELSE [returns |-> [function |-> "invoke"]]

\* the body of the try statement on an existing module
TryUnit(unit, outcome) ==
    IF ImportRaises(unit) # "None" THEN [raises |-> ImportRaises(unit)]
    ELSE IF ~DefinesInvoke(unit) THEN [raises |-> "AttributeError"]
    ELSE outcome

\* the body of the try statement of _invoke_tool, with the directory as it is
TryInvokeIn(files, tool_name, outcome) ==
    IF FoundAt(files, tool_name) = {} THEN [raises |-> "ModuleNotFoundError"]
    ELSE TryUnit(files[CHOOSE i \in FoundAt(files, tool_name) : TRUE], outcome)

\* invoke of tools.<tool_name> is reached
InvokeReached(files, tool_name) ==
    /\ FoundAt(files, tool_name) # {}
    /\ \A i \in FoundAt(files, tool_name) :
          ImportRaises(files[i]) = "None" /\ DefinesInvoke(files[i])

\* what the environment does for one dispatch
DispatchOutcomes(files, tool_name) ==
    IF InvokeReached(files, tool_name)
    THEN UnitInvokeOutcomes(files[CHOOSE i \in FoundAt(files, tool_name) : TRUE])
    ELSE {[returns |-> None]}

\* a tool request of the model, after __init__ has loaded the tool configurations
DispatchTool ==
    /\ tool_configs # None /\ tool_configs[1].raised = "None"
    /\ tool_request = None
    /\ \E tool_name \in RequestNames :
          \E outcome \in DispatchOutcomes(listing[1].files, tool_name) :
             /\ tool_request' = Some([payload |-> ToolUse("t1", tool_name).toolUse,
                                       outcome |-> outcome])
             /\ dispatch_result' =
                   Some(Dispatched(ToolUse("t1", tool_name).toolUse,
                                   TryInvokeIn(listing[1].files, tool_name, outcome)))
    /\ UNCHANGED <<orchestratorVars, displayVars, scaleVars, computerVars, discoveryVars>>

DispatchNext == Discover \/ DispatchTool

DispatchSpec == DiscoveryInit /\ [][DispatchNext]_vars

-----------------------------------------------------------------------------
(* What the claims about the computer tool speak of *)

\* invoke has run on an input whose keywords __call__ takes
Ran == call_outcome # None
ReachesCall == input_data # None /\ input_data[1].action # None /\ ~input_data[1].unexpected

\* the messages of the ToolErrors __call__ raises for its parameters
ValidationMessages ==
    {"coordinate is required", "text is not accepted", "must be a tuple of length 2",
     "must be a tuple of non-negative ints", "out of bounds", "text is required",
     "coordinate is not accepted", "must be a string", "Invalid action"}

\* __call__ rejected its parameters
Rejected ==
    /\ Ran
    /\ call_outcome[1].raised = "ToolError"
    /\ call_outcome[1].message \in ValidationMessages

\* the coordinate is a list of exactly two non-negative integers
TwoNonNegativeInts(coordinate) ==
    /\ coordinate # None
    /\ IsList(coordinate[1])
    /\ Len(coordinate[1].list) = 2
    /\ \A i \in 1..2 : IsInt(coordinate[1].list[i]) /\ IntValue(coordinate[1].list[i]) >= 0

\* the rule of each action family for the two parameters
FamilyRule(input) ==
    IF input.action[1] \in {"mouse_move", "left_click_drag"}
    THEN TwoNonNegativeInts(input.coordinate) /\ input.text = None
    ELSE IF input.action[1] \in {"key", "type"}
    THEN input.text # None /\ IsStr(input.text[1]) /\ input.coordinate = None
    ELSE IF input.action[1] \in {"left_click", "right_click", "middle_click", "double_click",
                                 "screenshot", "cursor_position"}
    THEN input.text = None /\ input.coordinate = None
    ELSE FALSE

\* the coordinate of a mouse action lies on the display, where the display is scaled
WithinScaledBounds(input) ==
    (/\ input.action[1] \in {"mouse_move", "left_click_drag"}
     /\ TwoNonNegativeInts(input.coordinate)
     /\ TargetDimension(width, height) # None)
        => /\ IntValue(input.coordinate[1].list[1]) <= width
           /\ IntValue(input.coordinate[1].list[2]) <= height

\* a rejection comes back from invoke as an error payload
RejectionIsError ==
    Rejected => /\ escaped = "None"
                /\ tool_result_content = Some(ErrorPayload("ToolError", call_outcome[1].message))

-----------------------------------------------------------------------------
(* C12 *)

\* C12 as stated: __call__ accepts exactly the inputs that satisfy the rule of
\* their action family, and every rejection is an error outcome
C12_AcceptedByFamilyRule ==
    Ran /\ ReachesCall =>
        /\ ~Rejected <=> FamilyRule(input_data[1])
        /\ RejectionIsError

\* C12 amended: __call__ accepts exactly the inputs that satisfy the rule of their
\* action family and, for mouse_move and left_click_drag on a display a scaling
\* target is selected for, whose coordinate does not exceed the physical width
\* and height; every rejection is an error outcome
C12_AcceptedByFamilyRuleAndBounds ==
    Ran /\ ReachesCall =>
        /\ ~Rejected <=> (FamilyRule(input_data[1]) /\ WithinScaledBounds(input_data[1]))
        /\ RejectionIsError

\* a drag to a coordinate on a scaled display was accepted and issued
C12_Witness ==
    /\ Ran /\ ReachesCall /\ ~Rejected
    /\ input_data[1].action = Some("left_click_drag")
    /\ input_data[1].coordinate = Some(PyList(<<PyInt(1000), PyInt(0)>>))
    /\ TargetDimension(width, height) # None
    /\ Len(shell_log) >= 1 /\ shell_log[1].run = "cliclick dd:. du:"

-----------------------------------------------------------------------------
(* C13 *)

\* C13: a call rejected for its parameters has run no shell command and taken
\* no screenshot
C13_RejectionHasNoSideEffect == Rejected => shell_log = <<>>

\* a key action given a coordinate was rejected
C13_Witness ==
    /\ Rejected
    /\ input_data[1].action = Some("key")
    /\ input_data[1].text = Some(PyStr(<<82>>))
    /\ input_data[1].coordinate # None
    /\ call_outcome[1].message = "coordinate is not accepted"

-----------------------------------------------------------------------------
(* C14 *)

\* a POSIX shell reading one character of a word: quotes switch the mode and
\* are dropped, every other character is kept
Opens(c, mode) == (mode = "plain" /\ c \in {34, 39}) \/ (mode = "single" /\ c = 39) \/ (mode = "double" /\ c = 34)
NextMode(c, mode) ==
    IF ~Opens(c, mode) THEN mode
    ELSE IF mode # "plain" THEN "plain"
    ELSE IF c = 39 THEN "single" ELSE "double"
Kept(c, mode) == IF Opens(c, mode) THEN <<>> ELSE <<c>>

\* the mode the shell is in after characters lo..hi of q, read from mode
RECURSIVE ModeFrom(_, _, _, _)
ModeFrom(q, lo, hi, mode) ==
    IF lo > hi THEN mode
    ELSE IF lo = hi THEN NextMode(q[lo], mode)
    ELSE LET half == ModeFrom(q, lo, (lo + hi) \div 2, mode)
         IN  IF half = "plain" THEN ModeFrom(q, (lo + hi) \div 2 + 1, hi, "plain")
             ELSE IF half = "single" THEN ModeFrom(q, (lo + hi) \div 2 + 1, hi, "single")
             ELSE ModeFrom(q, (lo + hi) \div 2 + 1, hi, "double")

ModeAfter(q, i) == ModeFrom(q, 1, i, "plain")

\* the word a POSIX shell makes of a quoted argument
ShellWord(q) ==
    LET modes == [i \in 1..Len(q) |-> ModeAfter(q, i - 1)]
        kept == {i \in 1..Len(q) : ~Opens(q[i], modes[i])}
        place(i) == Cardinality({k \in kept : k <= i})
    IN  [n \in 1..Cardinality(kept) |-> q[CHOOSE i \in kept : place(i) = n]]

IsTyping(entry) == "run" \in DOMAIN entry /\ entry.run = "cliclick t:"
IsCapture(entry) == "run" \in DOMAIN entry /\ entry.run = "screencapture"

\* the input-injection commands of the run, and the characters they carry
TypingCommands == SelectSeq(shell_log, IsTyping)
RECURSIVE TypedText(_)
TypedText(commands) ==
    IF commands = <<>> THEN <<>>
    ELSE ShellWord(Head(commands).arg) \o TypedText(Tail(commands))

\* ceil(n / TYPING_GROUP_SIZE)
ChunkCount(n) == (n + TYPING_GROUP_SIZE - 1) \div TYPING_GROUP_SIZE

TypeAccepted ==
    /\ Ran /\ ReachesCall /\ ~Rejected
    /\ input_data[1].action = Some("type")

\* C14: a type action with a text of n characters issues ceil(n / 50)
\* input-injection commands, in order, of at most 50 characters each, that
\* together carry the text; nothing is captured or waited for between them, and
\* exactly one screenshot is taken, after the last of them, and attached to the
\* result (a command that raises ends the action where it is)
C14_TypeInChunksOneScreenshot ==
    TypeAccepted =>
        LET text == input_data[1].text[1].str
            typing == TypingCommands
            captures == SelectSeq(shell_log, IsCapture)
        IN  /\ Len(typing) <= ChunkCount(Len(text))
            /\ \A i \in 1..Len(typing) :
                  /\ shell_log[i] = typing[i]
                  /\ Len(ShellWord(typing[i].arg)) \in 1..TYPING_GROUP_SIZE
            /\ IsPrefix(TypedText(typing), text)
            /\ Len(captures) <= 1
            /\ \A i \in 1..Len(shell_log) : "sleep" \notin DOMAIN shell_log[i]
            /\ Len(shell_log) > Len(typing) =>
                  /\ Len(typing) = ChunkCount(Len(text))
                  /\ TypedText(typing) = text
                  /\ IsCapture(shell_log[Len(typing) + 1])
            /\ call_outcome[1].raised = "None" =>
                  /\ Len(typing) = ChunkCount(Len(text))
                  /\ Len(captures) = 1
                  /\ "read" \in DOMAIN shell_log[Len(shell_log)]
                  /\ call_outcome[1].value[1].image_bytes = Some(Len(shell_log))

\* 120 characters were typed as 50, 50 and 20, then one screenshot
C14_Witness ==
    /\ TypeAccepted
    /\ call_outcome[1].raised = "None"
    /\ Len(input_data[1].text[1].str) = 120
    /\ Len(TypingCommands) = 3
    /\ Len(ShellWord(TypingCommands[1].arg)) = 50
    /\ Len(ShellWord(TypingCommands[2].arg)) = 50
    /\ Len(ShellWord(TypingCommands[3].arg)) = 20
    /\ Len(SelectSeq(shell_log, IsCapture)) = 1

-----------------------------------------------------------------------------
(* C21 *)

\* the actions that are followed by the delay and a screenshot
FeedbackActions ==
    {"mouse_move", "left_click_drag", "key", "left_click", "right_click",
     "middle_click", "double_click"}

\* __call__ accepted an action among the given ones
Accepted(actions) ==
    /\ Ran /\ ReachesCall /\ ~Rejected
    /\ input_data[1].action[1] \in actions

\* the command of an action
ActionCommand(action) ==
    CASE action = "mouse_move" -> "cliclick m:"
      [] action = "left_click_drag" -> "cliclick dd:. du:"
      [] action = "cursor_position" -> "cliclick p:"
      [] OTHER -> "cliclick"

\* something failed on the way: an exception left __call__, or one was caught
\* there and made the error of the result
Failed ==
    \/ call_outcome[1].raised # "None"
    \/ /\ Len(call_outcome[1].value[1].error) = 2
       /\ call_outcome[1].value[1].error[1] = "error"

\* the image of the result __call__ returned (None without one)
AttachedImage ==
    IF call_outcome[1].raised # "None" THEN None ELSE call_outcome[1].value[1].image_bytes

\* C21: an accepted mouse_move, left_click_drag, key or click runs, in this
\* order, its command, the delay of _screenshot_delay, one capture with its
\* resize, and the read of the captured file, whose bytes are the image of the
\* result; a step that fails ends the sequence there and no image is attached.
\* screenshot captures without a delay, and cursor_position runs its command
\* alone: neither waits nor takes a further screenshot.
C21_CommandDelayScreenshot ==
    /\ Accepted(FeedbackActions) =>
          /\ Len(shell_log) <= 5
          /\ Len(shell_log) >= 1 =>
                /\ "run" \in DOMAIN shell_log[1]
                /\ shell_log[1].run = ActionCommand(input_data[1].action[1])
          /\ Len(shell_log) >= 2 => shell_log[2] = [sleep |-> screenshot_delay]
          /\ Len(shell_log) >= 3 => IsCapture(shell_log[3])
          /\ Len(shell_log) >= 4 =>
                "run" \in DOMAIN shell_log[4] /\ shell_log[4].run = "convert -resize"
          /\ Len(shell_log) >= 5 => shell_log[5] = [read |-> "screenshot"]
          /\ ~Failed => Len(shell_log) = 5 /\ AttachedImage = Some(5)
          /\ Failed => AttachedImage = None
    /\ Accepted({"screenshot"}) =>
          /\ Len(shell_log) <= 3
          /\ \A i \in 1..Len(shell_log) : "sleep" \notin DOMAIN shell_log[i]
          /\ Len(SelectSeq(shell_log, IsCapture)) = 1 /\ IsCapture(shell_log[1])
          /\ ~Failed => AttachedImage = Some(3)
    /\ Accepted({"cursor_position"}) =>
          /\ Len(shell_log) = 1
          /\ shell_log[1] = [run |-> ActionCommand("cursor_position")]
          /\ AttachedImage = None

\* a mouse_move on a scaled display went through the whole sequence
C21_Witness ==
    /\ Accepted({"mouse_move"}) /\ ~Failed
    /\ TargetDimension(width, height) # None
    /\ Len(shell_log) = 5
    /\ shell_log[2] = [sleep |-> screenshot_delay]
    /\ call_outcome[1].value[1].image_bytes = Some(5)
    /\ call_outcome[1].value[1].output = <<"stdout">>

-----------------------------------------------------------------------------
(* C27 *)

\* C27: when __call__ returned a result with a non-empty output or error, the
\* payload invoke returns carries that text under "json", and the bytes of the
\* screenshot under "image" when one was taken; it is not an error payload of
\* invoke's own making
C27_PayloadCarriesResult ==
    (/\ Ran /\ call_outcome[1].raised = "None"
     /\ Truthy(call_outcome[1].value[1].output) \/ Truthy(call_outcome[1].value[1].error))
        => /\ tool_result_content # None
           /\ "json" \in DOMAIN tool_result_content[1]
           /\ Truthy(call_outcome[1].value[1].output) =>
                 /\ "Output" \in DOMAIN tool_result_content[1].json
                 /\ tool_result_content[1].json.Output = call_outcome[1].value[1].output
           /\ Truthy(call_outcome[1].value[1].error) =>
                 /\ "Error" \in DOMAIN tool_result_content[1].json
                 /\ tool_result_content[1].json.Error = call_outcome[1].value[1].error
           /\ Truthy(call_outcome[1].value[1].image_bytes) =>
                 /\ "image" \in DOMAIN tool_result_content[1]
                 /\ tool_result_content[1].image.source.bytes
                       = call_outcome[1].value[1].image_bytes[1]

-----------------------------------------------------------------------------
(* C18 *)

\* C18: invoke of the computer tool always returns a payload, an error payload
\* when something failed, and lets no exception out
C18_InvokeAlwaysReturns ==
    Ran =>
        /\ escaped = "None"
        /\ tool_result_content # None
        /\ call_outcome[1].raised # "None" =>
              tool_result_content = Some(ErrorPayload(call_outcome[1].raised, call_outcome[1].message))

\* the key mapping could not be read: the exception came back as a payload
C18_Witness ==
    /\ Ran
    /\ call_outcome[1].raised = "FileNotFoundError"
    /\ escaped = "None"
    /\ tool_result_content = Some(ErrorPayload("FileNotFoundError", "key mapping"))

-----------------------------------------------------------------------------
(* C19 *)

\* the units that are neither ignored nor bad, in the order of the listing
RECURSIVE GoodDescriptors(_)
GoodDescriptors(files) ==
    IF files = <<>> THEN <<>>
    ELSE (IF EndsWithPy(Head(files).file) /\ ~Head(files).ignored /\ Head(files).load = "ok"
          THEN <<Descriptor(Head(files))>> ELSE <<>>) \o GoodDescriptors(Tail(files))

\* C19: discovery never aborts for a bad unit, whatever makes it bad: it returns
\* the descriptors of exactly the good units that are not on the ignore list
\* (nothing at all when there is none)
C19_DiscoverySkipsBadUnits ==
    tool_configs # None /\ listing[1].exists =>
        /\ tool_configs[1].raised = "None"
        /\ IF GoodDescriptors(listing[1].files) = <<>> THEN tool_configs[1].value = None
           ELSE tool_configs[1].value = Some(GoodDescriptors(listing[1].files))

-----------------------------------------------------------------------------
(* C25, C26 *)

\* a request has been dispatched: its name, the directory, what came back
Replied == dispatch_result # None
RequestedName == tool_request[1].payload.name
Directory == listing[1].files
ReplyContent == dispatch_result[1].value[1].content
RepliedWith(message) ==
    /\ dispatch_result[1].raised = "None"
    /\ ReplyContent = [error |-> "true", message |-> message]

\* the names of the tool configurations _load_tool_configs returned
Discovered ==
    IF tool_configs[1].value = None THEN {}
    ELSE {tool_configs[1].value[1][i].toolSpec.name : i \in 1..Len(tool_configs[1].value[1])}

\* C25: the 'not found' error is returned only when no module of the requested
\* name exists, and the 'does not have an invoke method' error only when the
\* module was imported and defines no invoke; a failure inside the imports of
\* an existing tool or inside its invoke is reported as neither.
C25_ErrorKindsOnlyForTheirCause ==
    Replied =>
       /\ RepliedWith(NotFoundMessage(RequestedName)) =>
             FoundAt(Directory, RequestedName) = {}
       /\ RepliedWith(NoInvokeMessage(RequestedName)) =>
             /\ FoundAt(Directory, RequestedName) # {}
             /\ ~InvokeReached(Directory, RequestedName)
             /\ \A i \in FoundAt(Directory, RequestedName) : ImportRaises(Directory[i]) = "None"

\* C26 as stated: a request for a tool that is not among the discovered ones is
\* answered with the 'not found' error and its invoke is not called
C26_OnlyDiscoveredToolsInvoked ==
    (Replied /\ ModuleFile(RequestedName) \notin Discovered) =>
       /\ RepliedWith(NotFoundMessage(RequestedName))
       /\ ~InvokeReached(Directory, RequestedName)

\* C26 amended: the dispatcher goes by the modules of the tools directory, not
\* by the discovered set: invoke of an importable module that defines it is
\* called, discovered or not, and what it returns is the content of the result;
\* the 'not found' error answers every request whose module does not exist
C26_ImportableToolsInvoked ==
    Replied =>
       /\ (InvokeReached(Directory, RequestedName) /\ "returns" \in DOMAIN tool_request[1].outcome) =>
             /\ dispatch_result[1].raised = "None"
             /\ ReplyContent = tool_request[1].outcome.returns
             /\ dispatch_result[1].value[1].toolUseId = tool_request[1].payload.toolUseId
       /\ FoundAt(Directory, RequestedName) = {} =>
             RepliedWith(NotFoundMessage(RequestedName))

C26_Witness ==
    /\ Replied
    /\ RequestedName = "computer"
    /\ Discovered = {"weather_tool.py"}
    /\ \E i \in 1..Len(Directory) : Directory[i].file = "ignored_tool.py"
    /\ ReplyContent = [json |-> "ok"]

====
